---------------------------- MODULE Spec2Model ----------------------------
(***************************************************************************)
(* Model of resume_bot.py: the aiogram dialogue that collects a resume     *)
(* step by step (ResumeForm), derives a summary and an enhanced skill      *)
(* list, renders the record as pdf or docx into the working directory,     *)
(* delivers the file and clears the session.                               *)
(*                                                                         *)
(* Text is a sequence of tokens.  A token is a word (an indivisible run    *)
(* of characters holding no separator) or one of the separators            *)
(* "," ":" " " "_" and "\n", so that split, strip, replace, lower and join *)
(* are computed on the text as the Python built-ins compute them.          *)
(***************************************************************************)
EXTENDS Naturals, Integers, Sequences, FiniteSets, TLC

VARIABLES
    state,   \* state[s]: the FSM state of session s in MemoryStorage ("None" when unset)
    data,    \* data[s]: the dict MemoryStorage keeps for session s
    pc,      \* pc[s]: where the handler of session s stands ("idle": no handler running)
    frame,   \* frame[s]: locals of the suspended process_format of session s
    files,   \* the working directory: file name -> document
    builds,  \* builds[s]: number of /build commands session s has sent
    hist     \* hist[s]: what session s has observed since its last /build

vars == <<state, data, pc, frame, files, builds, hist>>

Sessions == {"u1", "u2"}

----------------------------------------------------------------------------
(* Python built-ins on text *)

Whitespace == {" ", "\n"}

RECURSIVE LStrip(_)
LStrip(s) ==
    IF s # <<>> /\ Head(s) \in Whitespace THEN LStrip(Tail(s)) ELSE s

RECURSIVE RStrip(_)
RStrip(s) ==
    IF s # <<>> /\ s[Len(s)] \in Whitespace
    THEN RStrip(SubSeq(s, 1, Len(s) - 1))
    ELSE s

\* str.strip()
Strip(s) == RStrip(LStrip(s))

\* index of the first occurrence of token sep in s, 0 when there is none
RECURSIVE FindFrom(_, _, _)
FindFrom(s, sep, i) ==
    IF i > Len(s) THEN 0
    ELSE IF s[i] = sep THEN i
    ELSE FindFrom(s, sep, i + 1)

\* str.split(sep, maxsplit); maxsplit = -1 splits at every sep
RECURSIVE Split(_, _, _)
Split(s, sep, maxsplit) ==
    LET i == FindFrom(s, sep, 1) IN
    IF maxsplit = 0 \/ i = 0 THEN << s >>
    ELSE << SubSeq(s, 1, i - 1) >>
         \o Split(SubSeq(s, i + 1, Len(s)), sep, maxsplit - 1)

\* str.replace(old, new) for single-character old and new
Replace(s, old, new) == [i \in 1..Len(s) |-> IF s[i] = old THEN new ELSE s[i]]

\* str.lower() of one word
LowerToken(t) ==
    CASE t = "Al"     -> "al"
      [] t = "B"      -> "b"
      [] t = "SKIP"   -> "skip"
      [] t = "Skip"   -> "skip"
      [] t = "Python" -> "python"
      [] t = "SQL"    -> "sql"
      [] t = "Cy"     -> "cy"
      [] t = "Teamwork" -> "teamwork"
      [] t = "Java"   -> "java"
      [] t = "Script" -> "script"
      [] t = "My"     -> "my"
      [] t = "Data"   -> "data"
      [] t = "Analysis" -> "analysis"
      [] OTHER        -> t

\* str.lower()
Lower(s) == [i \in 1..Len(s) |-> LowerToken(s[i])]

\* sep.join(list)
RECURSIVE Join(_, _)
Join(sep, list) ==
    IF list = <<>> THEN <<>>
    ELSE IF Len(list) = 1 THEN list[1]
    ELSE list[1] \o sep \o Join(sep, Tail(list))

\* str.startswith(prefix)
StartsWith(s, prefix) ==
    Len(s) >= Len(prefix) /\ SubSeq(s, 1, Len(prefix)) = prefix

----------------------------------------------------------------------------
(* dict operations of the storage and of resume_data *)

EmptyDict == <<>>

\* d[k] = v
DictSet(d, k, v) ==
    [x \in (DOMAIN d) \cup {k} |-> IF x = k THEN v ELSE d[x]]

HasKey(d, k) == k \in DOMAIN d

\* del d[k]
DictDel(d, k) == [x \in (DOMAIN d) \ {k} |-> d[x]]

----------------------------------------------------------------------------
(* TEMPLATES and the ResumeForm states, in declaration order *)

TEMPLATES == << <<"professional">>, <<"creative">>, <<"academic">>, <<"technical">> >>

FORMATS == << <<"pdf">>, <<"docx">> >>

ResumeForm ==
    << "name", "email", "phone", "education", "experience",
       "skills", "projects", "template", "format" >>

NoState == "None"

----------------------------------------------------------------------------
(* Derivation: generate_summary, enhance_skills *)

MaxSkills == 8

common_skills ==
    << <<"Problem", " ", "Solving">>, <<"Communication">>, <<"Teamwork">>,
       <<"Time", " ", "Management">>, <<"Leadership">>,
       <<"Critical", " ", "Thinking">>, <<"Adaptability">>,
       <<"Project", " ", "Management">> >>

\* x in list
InList(x, list) == \E i \in 1..Len(list) : list[i] = x

\* list[:n]
Take(list, n) == SubSeq(list, 1, IF Len(list) < n THEN Len(list) ELSE n)

generate_summary(resume_data) ==
    resume_data["name"]
    \o <<" is a dedicated professional with expertise in ">>
    \o Join(<<",", " ">>, Take(resume_data["skills"], 3))
    \o <<". Seeking new opportunities to apply these skills in a challenging environment.">>

\* the for loop of enhance_skills without the test len(enhanced) < 8
RECURSIVE EnhanceLoop_nocap(_, _)
EnhanceLoop_nocap(enhanced, i) ==
    IF i > Len(common_skills) THEN enhanced
    ELSE LET skill == common_skills[i] IN
         EnhanceLoop_nocap(IF ~InList(skill, enhanced)
                           THEN Append(enhanced, skill)
                           ELSE enhanced,
                           i + 1)

\* the for loop of enhance_skills from common_skills[i] on
RECURSIVE EnhanceLoop(_, _)
EnhanceLoop(enhanced, i) ==
    IF i > Len(common_skills) THEN enhanced
    ELSE LET skill == common_skills[i] IN
         EnhanceLoop(IF ~InList(skill, enhanced) /\ Len(enhanced) < MaxSkills
                     THEN Append(enhanced, skill)
                     ELSE enhanced,
                     i + 1)

\* enhance_skills appending to the caller's list instead of to a copy of it
enhance_skills_nocopy(skills) ==
    LET enhanced == IF Len(skills) < MaxSkills THEN EnhanceLoop(skills, 1) ELSE skills
    IN  [skills |-> enhanced, enhanced |-> enhanced]

\* enhance_skills(skills): the list it returns (enhanced), and the caller's
\* list as the call leaves it (skills): the loop appends to a copy
enhance_skills(skills) ==
    LET enhanced == IF Len(skills) < MaxSkills THEN EnhanceLoop(skills, 1) ELSE skills
    IN  [skills |-> skills, enhanced |-> enhanced]

\* sub in s, for two strings
Contains(s, sub) ==
    \E i \in 0..(Len(s) - Len(sub)) : SubSeq(s, i + 1, i + Len(sub)) = sub

\* the dict of get_job_recommendations, in the order of its keys
skill_to_jobs ==
    << [key |-> <<"python">>,
        jobs |-> {"Python Developer", "Software Engineer", "Data Scientist", "Backend Developer"}],
       [key |-> <<"java", "script">>,
        jobs |-> {"Frontend Developer", "Web Developer", "Full Stack Developer", "UI Engineer"}],
       [key |-> <<"java">>,
        jobs |-> {"Java Developer", "Software Engineer", "Android Developer", "Backend Developer"}],
       [key |-> <<"sql">>,
        jobs |-> {"Database Administrator", "Data Analyst", "Backend Developer", "SQL Developer"}],
       [key |-> <<"data", " ", "analysis">>,
        jobs |-> {"Data Analyst", "Business Analyst", "Data Scientist", "Research Analyst"}],
       [key |-> <<"machine", " ", "learning">>,
        jobs |-> {"Machine Learning Engineer", "Data Scientist", "AI Researcher", "ML Specialist"}],
       [key |-> <<"project", " ", "management">>,
        jobs |-> {"Project Manager", "Product Manager", "Scrum Master", "Program Manager"}],
       [key |-> <<"marketing">>,
        jobs |-> {"Marketing Specialist", "Digital Marketer", "Content Strategist", "Marketing Manager"}],
       [key |-> <<"design">>,
        jobs |-> {"UI/UX Designer", "Graphic Designer", "Product Designer", "Web Designer"}] >>

default_jobs ==
    << "Project Manager", "Software Developer", "Business Analyst",
       "Data Specialist", "Marketing Coordinator" >>

\* for key in skill_to_jobs, from the k-th key on, with an exact test
\* (key == skill_lower) in place of the substring test
RECURSIVE KeyLoop_exact(_, _, _)
KeyLoop_exact(skill_lower, recommended_jobs, k) ==
    IF k > Len(skill_to_jobs) THEN recommended_jobs
    ELSE KeyLoop_exact(skill_lower,
                       IF skill_to_jobs[k].key = skill_lower
                       THEN recommended_jobs \cup skill_to_jobs[k].jobs
                       ELSE recommended_jobs,
                       k + 1)

\* for key in skill_to_jobs, from the k-th key on
RECURSIVE KeyLoop(_, _, _)
KeyLoop(skill_lower, recommended_jobs, k) ==
    IF k > Len(skill_to_jobs) THEN recommended_jobs
    ELSE KeyLoop(skill_lower,
                 IF Contains(skill_lower, skill_to_jobs[k].key)
                 THEN recommended_jobs \cup skill_to_jobs[k].jobs
                 ELSE recommended_jobs,
                 k + 1)

\* for skill in skills, from the i-th skill on
RECURSIVE SkillLoop(_, _, _)
SkillLoop(skills, recommended_jobs, i) ==
    IF i > Len(skills) THEN recommended_jobs
    ELSE SkillLoop(skills, KeyLoop(Lower(skills[i]), recommended_jobs, 1), i + 1)

\* get_job_recommendations(skills), as the set of the titles of the list it
\* returns: the order of list(recommended_jobs) is the interpreter's
get_job_recommendations(skills) ==
    LET recommended_jobs == SkillLoop(skills, {}, 1) IN
    IF recommended_jobs = {}
    THEN {default_jobs[i] : i \in 1..Len(default_jobs)}
    ELSE recommended_jobs

----------------------------------------------------------------------------
(* Rendering.  A document is its format, its fonts and its items in order; *)
(* an item is a heading or a piece of body text.  A pdf item is one cell,  *)
(* a docx item is one heading or one paragraph (its runs concatenated).    *)

Heading(t) == [kind |-> "heading", text |-> t]
Body(t) == [kind |-> "body", text |-> t]

\* the fonts generate_pdf_resume sets from the template
PdfFont(template) ==
    IF template = <<"professional">> THEN "Helvetica"
    ELSE IF template = <<"creative">> THEN "Helvetica"
    ELSE IF template = <<"academic">> THEN "Times"
    ELSE "Courier"

\* generate_docx_resume reads the template and sets no font: the fonts are
\* those of the default document of python-docx
DocxFont(template) == "default"

\* parts[i].strip(), "" when parts is too short
Part(parts, i) == IF Len(parts) >= i THEN Strip(parts[i]) ELSE <<>>

\* PdfExperienceEntry splitting at every comma
PdfExperienceEntry_uncapped(exp) ==
    LET parts == Split(exp, ",", -1) IN
    IF Len(parts) >= 3
    THEN << Body(Part(parts, 1) \o <<" - ">> \o Part(parts, 2)),
            Body(Part(parts, 3)),
            Body(Part(parts, 4)) >>
    ELSE <<>>

PdfExperienceEntry(exp) ==
    LET parts == Split(exp, ",", 3) IN
    IF Len(parts) >= 3
    THEN << Body(Part(parts, 1) \o <<" - ">> \o Part(parts, 2)),
            Body(Part(parts, 3)),
            Body(Part(parts, 4)) >>
    ELSE <<>>

PdfEducationEntry(edu) ==
    LET parts == Split(edu, ",", -1) IN
    IF Len(parts) >= 2
    THEN << Body(Part(parts, 1)),
            Body(Part(parts, 2) \o <<",", " ">> \o Part(parts, 3)) >>
    ELSE <<>>

PdfProjectEntry(project) ==
    LET parts == Split(project, ",", 1) IN
    IF Len(parts) >= 1
    THEN << Body(Part(parts, 1)), Body(Part(parts, 2)) >>
    ELSE <<>>

DocxExperienceEntry(exp) ==
    LET parts == Split(exp, ",", 3) IN
    IF Len(parts) >= 3
    THEN << Body(Part(parts, 1) \o <<" - ">> \o Part(parts, 2) \o <<"\n">>
                 \o Part(parts, 3) \o <<"\n">>
                 \o Part(parts, 4)) >>
    ELSE <<>>

DocxEducationEntry(edu) ==
    LET parts == Split(edu, ",", -1) IN
    IF Len(parts) >= 2
    THEN << Body(Part(parts, 1) \o <<"\n">>
                 \o Part(parts, 2) \o <<",", " ">> \o Part(parts, 3)) >>
    ELSE <<>>

DocxProjectEntry(project) ==
    LET parts == Split(project, ",", 1) IN
    IF Len(parts) >= 1
    THEN << Body(Part(parts, 1) \o <<"\n">> \o Part(parts, 2)) >>
    ELSE <<>>

\* the items the body of a for loop adds, iteration after iteration
RECURSIVE Flatten(_)
Flatten(seqs) ==
    IF seqs = <<>> THEN <<>> ELSE Head(seqs) \o Flatten(Tail(seqs))

ContactLine(data_) ==
    <<"Email: ">> \o data_["email"] \o <<" | Phone: ">> \o data_["phone"]

PdfItems(data_) ==
    << Heading(data_["name"]), Body(ContactLine(data_)) >>
    \o << Heading(<<"PROFESSIONAL SUMMARY">>), Body(data_["summary"]) >>
    \o << Heading(<<"WORK EXPERIENCE">>) >>
    \o Flatten([i \in 1..Len(data_["experience"]) |-> PdfExperienceEntry(data_["experience"][i])])
    \o << Heading(<<"EDUCATION">>) >>
    \o Flatten([i \in 1..Len(data_["education"]) |-> PdfEducationEntry(data_["education"][i])])
    \o << Heading(<<"SKILLS">>),
          Body(Join(<<",", " ">>, data_["enhanced_skills"])) >>
    \o (IF data_["projects"] # <<>>
        THEN << Heading(<<"PROJECTS">>) >>
             \o Flatten([i \in 1..Len(data_["projects"]) |-> PdfProjectEntry(data_["projects"][i])])
        ELSE <<>>)

DocxItems(data_) ==
    << Heading(data_["name"]), Body(ContactLine(data_)) >>
    \o << Heading(<<"Professional Summary">>), Body(data_["summary"]) >>
    \o << Heading(<<"Work Experience">>) >>
    \o Flatten([i \in 1..Len(data_["experience"]) |-> DocxExperienceEntry(data_["experience"][i])])
    \o << Heading(<<"Education">>) >>
    \o Flatten([i \in 1..Len(data_["education"]) |-> DocxEducationEntry(data_["education"][i])])
    \o << Heading(<<"Skills">>),
          Body(Join(<<",", " ">>, data_["enhanced_skills"])) >>
    \o (IF data_["projects"] # <<>>
        THEN << Heading(<<"Projects">>) >>
             \o Flatten([i \in 1..Len(data_["projects"]) |-> DocxProjectEntry(data_["projects"][i])])
        ELSE <<>>)

\* the keys a renderer reads
RenderKeys ==
    {"template", "name", "email", "phone", "summary", "experience",
     "education", "enhanced_skills", "projects"}

PdfFilename(data_) ==
    <<"resume_">> \o Lower(Replace(data_["name"], " ", "_")) \o <<".pdf">>

DocxFilename(data_) ==
    <<"resume_">> \o Lower(Replace(data_["name"], " ", "_")) \o <<".docx">>

\* generate_pdf_resume(data): the file it writes and the document in it
generate_pdf_resume(data_) ==
    [filename |-> PdfFilename(data_),
     doc      |-> [format |-> "pdf",
                   title_font |-> PdfFont(data_["template"]),
                   body_font  |-> PdfFont(data_["template"]),
                   items |-> PdfItems(data_)]]

\* generate_docx_resume(data)
generate_docx_resume(data_) ==
    [filename |-> DocxFilename(data_),
     doc      |-> [format |-> "docx",
                   title_font |-> DocxFont(data_["template"]),
                   body_font  |-> DocxFont(data_["template"]),
                   items |-> DocxItems(data_)]]

\* the text of a document, layout aside: every item's lines in order, each
\* with its kind (a docx paragraph breaks its runs with "\n", a pdf cell
\* is one line)
RECURSIVE ItemLines(_)
ItemLines(items) ==
    IF items = <<>> THEN <<>>
    ELSE LET it == Head(items)
             lines == Split(it.text, "\n", -1)
         IN  [i \in 1..Len(lines) |-> [kind |-> it.kind, text |-> lines[i]]]
             \o ItemLines(Tail(items))

DocText(doc) == ItemLines(doc.items)

----------------------------------------------------------------------------
(* Bounds and the inputs the users may send *)

MaxBuilds == 2

NameTexts == { <<"Al", " ", "B">>, <<"Cy">> }
EmailTexts == { <<"a@x">> }
PhoneTexts == { <<"555">> }
EducationTexts ==
    { <<"BS", ",", " ", "MIT", ",", " ", "2020", "\n", "Bad", " ", "Line">> }
ExperienceTexts ==
    { <<"Dev", ",", " ", "Acme", ",", " ", "2020", ",", " ", "built", ",", " ", "ran">> }
SkillsTexts == { <<"Teamwork", ",", ",", " ", "Python", " ">> }
ProjectsTexts ==
    { <<"Skip">>, <<"skip">>,
      <<"Site", ",", " ", "made", ",", " ", "it", "\n", "Blog">> }

\* callback data: the buttons the bot shows, and data a client forges
TemplateButtons == { <<"template", ":">> \o TEMPLATES[i] : i \in 1..Len(TEMPLATES) }
FormatButtons == { <<"format", ":">> \o FORMATS[i] : i \in 1..Len(FORMATS) }
ForgedCallbacks ==
    { <<"template", ":", "bogus">>, <<"format", ":", "xyz">> }

FullInputs ==
    [name |-> NameTexts, email |-> EmailTexts, phone |-> PhoneTexts,
     education |-> EducationTexts, experience |-> ExperienceTexts,
     skills |-> SkillsTexts, projects |-> ProjectsTexts,
     callbacks |-> TemplateButtons \cup FormatButtons \cup ForgedCallbacks]

\* faults of the environment inside the try block of process_format
RenderOutcomes == {"ok", "OSError"}
SendOutcomes == {"ok", "TelegramNetworkError"}

----------------------------------------------------------------------------
(* State *)

NoFrame == [resume_data |-> EmptyDict, file_path |-> <<>>, exc |-> "none"]

\* renders: the records handed to a renderer; raised: the exceptions raised
\* in the try block; docs: the documents delivered; errors: the failure
\* descriptions of the error messages sent; jobs: the job messages sent;
\* done: the times process_format ran to its end
NoHist ==
    [renders |-> <<>>, raised |-> <<>>, docs |-> <<>>, errors |-> <<>>,
     recs |-> <<>>, jobs |-> 0, done |-> 0, entered |-> <<>>]

\* the history of a session that entered the fields of record r after its
\* build trigger
HistAt(r) == [NoHist EXCEPT !.entered = r]

Init ==
    /\ state = [s \in Sessions |-> NoState]
    /\ data = [s \in Sessions |-> EmptyDict]
    /\ pc = [s \in Sessions |-> "idle"]
    /\ frame = [s \in Sessions |-> NoFrame]
    /\ files = EmptyDict
    /\ builds = [s \in Sessions |-> 0]
    /\ hist = [s \in Sessions |-> NoHist]

----------------------------------------------------------------------------
(* Handlers, in registration order.  An update goes to the first handler   *)
(* whose filters match; the adapter delivers one update per session at a   *)
(* time, so a handler starts only when the session's previous one is done. *)
(* Exceptions are those the try block of process_format catches: a key    *)
(* missing from the record, a failure to write the file, to read it, to    *)
(* remove it, or to send the document or the job recommendations.  The     *)
(* Telegram calls outside the try block are taken to succeed.              *)

cmd_start(s) ==
    /\ pc[s] = "idle"
    /\ UNCHANGED vars

\* cmd_build going on at the Email step when a name is stored already
cmd_build_keepname(s) ==
    /\ pc[s] = "idle"
    /\ builds[s] < MaxBuilds
    /\ state' = [state EXCEPT ![s] = IF HasKey(data[s], "name") THEN "email" ELSE "name"]
    /\ builds' = [builds EXCEPT ![s] = @ + 1]
    /\ hist' = [hist EXCEPT ![s] = NoHist]
    /\ UNCHANGED <<data, pc, frame, files>>

cmd_build(s) ==
    /\ pc[s] = "idle"
    /\ builds[s] < MaxBuilds
    /\ state' = [state EXCEPT ![s] = "name"]
    /\ builds' = [builds EXCEPT ![s] = @ + 1]
    /\ hist' = [hist EXCEPT ![s] = NoHist]
    /\ UNCHANGED <<data, pc, frame, files>>

\* a message handler filtered on state st: update_data(key=value), set_state(next)
Collect(s, st, key, value, next) ==
    /\ pc[s] = "idle"
    /\ state[s] = st
    /\ data' = [data EXCEPT ![s] = DictSet(@, key, value)]
    /\ state' = [state EXCEPT ![s] = next]
    /\ hist' = [hist EXCEPT ![s].entered = DictSet(@, key, value)]
    /\ UNCHANGED <<pc, frame, files, builds>>

process_name(s, text) == Collect(s, "name", "name", text, "email")

\* process_email advancing without update_data
process_email_nostore(s, text) ==
    /\ pc[s] = "idle"
    /\ state[s] = "email"
    /\ state' = [state EXCEPT ![s] = "phone"]
    /\ UNCHANGED <<data, pc, frame, files, builds, hist>>

process_email(s, text) == Collect(s, "email", "email", text, "phone")

\* process_phone setting the state after the next one
process_phone_skip(s, text) == Collect(s, "phone", "phone", text, "experience")

process_phone(s, text) == Collect(s, "phone", "phone", text, "education")

process_education(s, text) ==
    Collect(s, "education", "education", Split(text, "\n", -1), "experience")

process_experience(s, text) ==
    Collect(s, "experience", "experience", Split(text, "\n", -1), "skills")

\* [skill.strip() for skill in message.text.split(',')]
StripAll(list) == [i \in 1..Len(list) |-> Strip(list[i])]

process_skills(s, text) ==
    Collect(s, "skills", "skills", StripAll(Split(text, ",", -1)), "projects")

\* process_projects without the test for 'skip'
process_projects_noskip(s, text) ==
    Collect(s, "projects", "projects", Split(text, "\n", -1), "template")

process_projects(s, text) ==
    Collect(s, "projects", "projects",
            IF Lower(text) = <<"skip">> THEN <<>> ELSE Split(text, "\n", -1),
            "template")

\* callback_query.data.split(':')[1]
CallbackId(cb) == Split(cb, ":", -1)[2]

process_template(s, cb) ==
    /\ StartsWith(cb, <<"template", ":">>)
    /\ Collect(s, "template", "template", CallbackId(cb), "format")

\* except Exception as e: the handler goes on at its except clause
Raise(s, e, resume_data, renders) ==
    /\ pc' = [pc EXCEPT ![s] = "except"]
    /\ frame' = [frame EXCEPT ![s].exc = e, ![s].resume_data = resume_data]
    /\ hist' = [hist EXCEPT ![s].raised = Append(@, e), ![s].renders = renders]

\* process_format from its start to the await of answer_document: the data
\* is stored and read back, summary and enhanced skills are derived, the
\* renderer writes the file.  outcome: whether writing the file succeeds.
process_format(s, cb, outcome) ==
    /\ pc[s] = "idle"
    /\ state[s] = "format"
    /\ StartsWith(cb, <<"format", ":">>)
    /\ LET format_type == CallbackId(cb)
           resume_data == DictSet(data[s], "format", format_type)
           derivable == HasKey(resume_data, "name") /\ HasKey(resume_data, "skills")
           call == enhance_skills(resume_data["skills"])
           rd == DictSet(DictSet(DictSet(resume_data,
                                         "summary", generate_summary(resume_data)),
                                 "skills", call.skills),
                         "enhanced_skills", call.enhanced)
           renderable == RenderKeys \subseteq DOMAIN rd
           out == IF rd["format"] = <<"pdf">>
                  THEN generate_pdf_resume(rd)
                  ELSE generate_docx_resume(rd)
       IN  IF ~derivable
           THEN /\ data' = [data EXCEPT ![s] = resume_data]
                /\ Raise(s, "KeyError", resume_data, hist[s].renders)
                /\ UNCHANGED files
           ELSE /\ data' = [data EXCEPT ![s] = DictSet(resume_data, "skills", call.skills)]
                /\ IF ~renderable
                   THEN /\ Raise(s, "KeyError", rd, Append(hist[s].renders, rd))
                        /\ UNCHANGED files
                   ELSE IF outcome # "ok"
                   THEN /\ Raise(s, outcome, rd, Append(hist[s].renders, rd))
                        /\ UNCHANGED files
                   ELSE /\ files' = DictSet(files, out.filename, out.doc)
                        /\ pc' = [pc EXCEPT ![s] = "send"]
                        /\ frame' = [frame EXCEPT ![s] =
                               [resume_data |-> rd, file_path |-> out.filename,
                                exc |-> "none"]]
                        /\ hist' = [hist EXCEPT ![s].renders = Append(@, rd)]
    /\ UNCHANGED <<state, builds>>

\* await answer_document(FSInputFile(file_path)): the file is opened and read
\* while the request is sent.  outcome: whether the request succeeds.
process_format_send(s, outcome) ==
    /\ pc[s] = "send"
    /\ IF ~HasKey(files, frame[s].file_path)
       THEN Raise(s, "FileNotFoundError", frame[s].resume_data, hist[s].renders)
       ELSE IF outcome # "ok"
       THEN Raise(s, outcome, frame[s].resume_data, hist[s].renders)
       ELSE /\ hist' = [hist EXCEPT ![s].docs = Append(@, files[frame[s].file_path])]
            /\ pc' = [pc EXCEPT ![s] = "cleanup"]
            /\ UNCHANGED frame
    /\ UNCHANGED <<state, data, files, builds>>

\* the end of the handler without state.clear()
Finish_noclear(s) ==
    /\ pc' = [pc EXCEPT ![s] = "idle"]
    /\ frame' = [frame EXCEPT ![s] = NoFrame]
    /\ UNCHANGED <<state, data>>

\* state.clear() and the closing prompt
Finish(s) ==
    /\ state' = [state EXCEPT ![s] = NoState]
    /\ data' = [data EXCEPT ![s] = EmptyDict]
    /\ pc' = [pc EXCEPT ![s] = "idle"]
    /\ frame' = [frame EXCEPT ![s] = NoFrame]

\* from os.remove(file_path) to the end of the handler when nothing raises.
\* outcome: whether sending the job recommendations succeeds.
process_format_cleanup(s, outcome) ==
    /\ pc[s] = "cleanup"
    /\ IF ~HasKey(files, frame[s].file_path)
       THEN /\ Raise(s, "FileNotFoundError", frame[s].resume_data, hist[s].renders)
            /\ UNCHANGED <<state, data, files>>
       ELSE LET skills == frame[s].resume_data["skills"]
                jobs == get_job_recommendations(skills)
                call == [skills |-> skills, jobs |-> jobs]
            IN  /\ files' = DictDel(files, frame[s].file_path)
                /\ IF outcome # "ok"
                   THEN /\ pc' = [pc EXCEPT ![s] = "except"]
                        /\ frame' = [frame EXCEPT ![s].exc = outcome]
                        /\ hist' = [hist EXCEPT ![s].raised = Append(@, outcome),
                                                ![s].recs = Append(@, call)]
                        /\ UNCHANGED <<state, data>>
                   ELSE /\ hist' = [hist EXCEPT ![s].recs = Append(@, call),
                                                ![s].jobs = @ + 1,
                                                ![s].done = @ + 1]
                        /\ Finish(s)
    /\ UNCHANGED builds

\* the except clause leaving the handler before state.clear()
process_format_except_noclear(s) ==
    /\ pc[s] = "except"
    /\ hist' = [hist EXCEPT ![s].errors = Append(@, frame[s].exc), ![s].done = @ + 1]
    /\ pc' = [pc EXCEPT ![s] = "idle"]
    /\ frame' = [frame EXCEPT ![s] = NoFrame]
    /\ UNCHANGED <<state, data, files, builds>>

\* the except clause sending a message that leaves out str(e)
process_format_except_nodesc(s) ==
    /\ pc[s] = "except"
    /\ hist' = [hist EXCEPT ![s].errors = Append(@, "error"), ![s].done = @ + 1]
    /\ Finish(s)
    /\ UNCHANGED <<files, builds>>

\* the except clause: the error message, then state.clear() and the prompt
process_format_except(s) ==
    /\ pc[s] = "except"
    /\ hist' = [hist EXCEPT ![s].errors = Append(@, frame[s].exc), ![s].done = @ + 1]
    /\ Finish(s)
    /\ UNCHANGED <<files, builds>>

\* a text message in a state no message handler is registered for
unhandled_message(s) ==
    /\ pc[s] = "idle"
    /\ state[s] \in {NoState, "template", "format"}
    /\ UNCHANGED vars

\* a callback query that passes the filters of neither callback handler
unhandled_callback(s, cb) ==
    /\ pc[s] = "idle"
    /\ ~(StartsWith(cb, <<"template", ":">>) /\ state[s] = "template")
    /\ ~(StartsWith(cb, <<"format", ":">>) /\ state[s] = "format")
    /\ UNCHANGED vars

----------------------------------------------------------------------------
(* Specifications *)

\* one step of session s, its inputs drawn from In
SessionStep(s, In) ==
    \/ cmd_start(s)
    \/ cmd_build(s)
    \/ \E text \in In.name : process_name(s, text)
    \/ \E text \in In.email : process_email(s, text)
    \/ \E text \in In.phone : process_phone(s, text)
    \/ \E text \in In.education : process_education(s, text)
    \/ \E text \in In.experience : process_experience(s, text)
    \/ \E text \in In.skills : process_skills(s, text)
    \/ \E text \in In.projects : process_projects(s, text)
    \/ \E cb \in In.callbacks : process_template(s, cb)
    \/ \E cb \in In.callbacks, o \in RenderOutcomes : process_format(s, cb, o)
    \/ \E o \in SendOutcomes : process_format_send(s, o)
    \/ \E o \in SendOutcomes : process_format_cleanup(s, o)
    \/ process_format_except(s)
    \/ unhandled_message(s)
    \/ \E cb \in In.callbacks : unhandled_callback(s, cb)

\* one session, every input
Next == SessionStep("u1", FullInputs)

Spec == Init /\ [][Next]_vars

\* two sessions whose handlers interleave at their awaits; both users may
\* enter names that give the same file name
ConcInputs ==
    [name |-> { <<"Al", " ", "B">>, <<"al", "_", "b">> }, email |-> EmailTexts,
     phone |-> PhoneTexts, education |-> EducationTexts,
     experience |-> ExperienceTexts, skills |-> SkillsTexts,
     projects |-> { <<"Skip">> },
     callbacks |-> { <<"template", ":", "professional">> } \cup FormatButtons]

NextConc == \E s \in Sessions : SessionStep(s, ConcInputs)

SpecConc == Init /\ [][NextConc]_vars

\* enhance_skills on every skill list of at most MaxUserSkills entries: the
\* session stands at the format step with the list process_skills stored
MaxUserSkills == 9

SkillPool == { <<"go">>, <<"Teamwork">> }

SkillLists ==
    UNION { [1..n -> SkillPool] : n \in 1..MaxUserSkills }

RecordWith(skills) ==
    [name |-> <<"Cy">>, email |-> <<"a@x">>, phone |-> <<"555">>,
     education |-> << <<"MS", ",", "CMU">> >>,
     experience |-> << <<"Dev", ",", "Acme", ",", "2020">> >>,
     skills |-> skills, projects |-> <<>>, template |-> <<"academic">>]

InitSkills ==
    /\ \E skills \in SkillLists :
          /\ data = [s \in Sessions |-> IF s = "u1" THEN RecordWith(skills) ELSE EmptyDict]
          /\ hist = [s \in Sessions |-> IF s = "u1" THEN HistAt(RecordWith(skills)) ELSE NoHist]
    /\ state = [s \in Sessions |-> IF s = "u1" THEN "format" ELSE NoState]
    /\ pc = [s \in Sessions |-> "idle"]
    /\ frame = [s \in Sessions |-> NoFrame]
    /\ files = EmptyDict
    /\ builds = [s \in Sessions |-> IF s = "u1" THEN 1 ELSE 0]

NextSkills ==
    \/ \E cb \in FormatButtons, o \in RenderOutcomes : process_format("u1", cb, o)
    \/ \E o \in SendOutcomes : process_format_send("u1", o)
    \/ \E o \in SendOutcomes : process_format_cleanup("u1", o)
    \/ process_format_except("u1")

SpecSkills == InitSkills /\ [][NextSkills]_vars

\* the renderers on lists of at most MaxLines lines: the session stands at
\* the format step with the lists of lines process_education,
\* process_experience and process_projects stored; one list varies at a
\* time
MaxLines == 2

ExperienceLinePool ==
    { <<>>,
      <<"Dev", ",", " ", "Acme">>,
      <<"Dev", ",", "Acme", ",", " ", "2020">>,
      <<"Dev", ",", " ", "Acme", ",", " ", "2020", ",", " ", "built", ",", " ", "ran">> }

EducationLinePool ==
    { <<>>,
      <<"Bad", " ", "Line">>,
      <<"BS", ",", " ", "MIT">>,
      <<"BS", ",", " ", "MIT", ",", " ", "2020", ",", "hons">> }

ProjectLinePool ==
    { <<>>,
      <<"Blog">>,
      <<" ", "Site", ",", "made">>,
      <<"Site", ",", " ", "made", ",", " ", "it">> }

LineLists(pool) == UNION { [1..n -> pool] : n \in 1..MaxLines }

RecordLines(education, experience, projects) ==
    [name |-> <<"Cy">>, email |-> <<"a@x">>, phone |-> <<"555">>,
     education |-> education, experience |-> experience,
     skills |-> << <<"go">> >>, projects |-> projects,
     template |-> <<"academic">>]

LineRecords ==
    { RecordLines(<< <<"MS", ",", "CMU">> >>, l, <<>>) : l \in LineLists(ExperienceLinePool) }
    \cup { RecordLines(l, << <<"Dev", ",", "Acme", ",", "2020">> >>, <<>>) :
             l \in LineLists(EducationLinePool) }
    \cup { RecordLines(<< <<"MS", ",", "CMU">> >>, << <<"Dev", ",", "Acme", ",", "2020">> >>, l) :
             l \in LineLists(ProjectLinePool) }

InitLines ==
    /\ \E r \in LineRecords :
          /\ data = [s \in Sessions |-> IF s = "u1" THEN r ELSE EmptyDict]
          /\ hist = [s \in Sessions |-> IF s = "u1" THEN HistAt(r) ELSE NoHist]
    /\ state = [s \in Sessions |-> IF s = "u1" THEN "format" ELSE NoState]
    /\ pc = [s \in Sessions |-> "idle"]
    /\ frame = [s \in Sessions |-> NoFrame]
    /\ files = EmptyDict
    /\ builds = [s \in Sessions |-> IF s = "u1" THEN 1 ELSE 0]

SpecLines == InitLines /\ [][NextSkills]_vars

\* get_job_recommendations on every skill list of at most MaxJobSkills
\* entries: the session stands at the format step with the list
\* process_skills stored
MaxJobSkills == 2

JobSkillPool ==
    { <<"Python">>, <<"SQL">>, <<"Java", "Script">>, <<"My", "SQL">>,
      <<"Data", " ", "Analysis">>, <<"go">>, <<>> }

JobSkillLists == UNION { [1..n -> JobSkillPool] : n \in 1..MaxJobSkills }

InitJobs ==
    /\ \E skills \in JobSkillLists :
          /\ data = [s \in Sessions |-> IF s = "u1" THEN RecordWith(skills) ELSE EmptyDict]
          /\ hist = [s \in Sessions |-> IF s = "u1" THEN HistAt(RecordWith(skills)) ELSE NoHist]
    /\ state = [s \in Sessions |-> IF s = "u1" THEN "format" ELSE NoState]
    /\ pc = [s \in Sessions |-> "idle"]
    /\ frame = [s \in Sessions |-> NoFrame]
    /\ files = EmptyDict
    /\ builds = [s \in Sessions |-> IF s = "u1" THEN 1 ELSE 0]

SpecJobs == InitJobs /\ [][NextSkills]_vars

----------------------------------------------------------------------------
(* Claims *)

\* the step after st in the order Name, ..., Format, terminal; the terminal
\* step (no state set) has no successor
Successor(st) ==
    IF st = NoState THEN NoState
    ELSE IF st = "format" THEN NoState
    ELSE ResumeForm[(CHOOSE i \in 1..Len(ResumeForm) : ResumeForm[i] = st) + 1]

\* the fields the nine steps set, and the derived ones
StepKeys ==
    {"name", "email", "phone", "education", "experience", "skills",
     "projects", "template", "format"}
DerivedKeys == {"summary", "enhanced_skills"}

\* the document rendered from record r
OwnDoc(r) ==
    IF r["format"] = <<"pdf">> THEN generate_pdf_resume(r).doc
    ELSE generate_docx_resume(r).doc

\* C1 as stated: whatever the input, a session's step changes only to the
\* immediate successor of the step it is in (a session with no step may
\* start at Name): never to an earlier step, never past a step.
C1_OnlySuccessor ==
    [][\A s \in Sessions :
          state'[s] # state[s] =>
              \/ state[s] = NoState /\ state'[s] = "name"
              \/ state[s] # NoState /\ state'[s] = Successor(state[s])]_vars

\* C1 amended: a session's step changes only to the immediate successor of
\* the step it is in, or, on the /build command, to Name from whatever step
\* it is in; no other input moves it back and no input skips a step.
C1_SuccessorOrBuild ==
    [][\A s \in Sessions :
          state'[s] # state[s] =>
              \/ state[s] # NoState /\ state'[s] = Successor(state[s])
              \/ cmd_build(s)]_vars

\* a /build that arrived at the Template step or later took the session
\* back to Name
C1_Witness ==
    /\ builds["u1"] = 2
    /\ state["u1"] = "name"
    /\ HasKey(data["u1"], "projects")

\* C2: the template and the format stored on a record, and those of every
\* record handed to a renderer, are members of the closed sets: a selection
\* outside them does not change the record.
C2_ClosedSets ==
    \A s \in Sessions :
        /\ HasKey(data[s], "template") => InList(data[s]["template"], TEMPLATES)
        /\ HasKey(data[s], "format") => InList(data[s]["format"], FORMATS)
        /\ \A i \in 1..Len(hist[s].renders) :
              /\ InList(hist[s].renders[i]["template"], TEMPLATES)
              /\ InList(hist[s].renders[i]["format"], FORMATS)

\* C3: since its last /build a session has reached the terminal transition
\* at most once and invoked a renderer at most once; once it stands at the
\* terminal step it has done both exactly once, on a record holding every
\* field.
C3_ExactlyOnce ==
    \A s \in Sessions :
        /\ Len(hist[s].renders) <= 1
        /\ hist[s].done <= 1
        /\ hist[s].done = 1 => state[s] = NoState
        /\ (builds[s] > 0 /\ state[s] = NoState) =>
              /\ hist[s].done = 1
              /\ Len(hist[s].renders) = 1
              /\ StepKeys \subseteq DOMAIN hist[s].renders[1]

\* nine valid inputs after the first /build ended with the document and the
\* job recommendations delivered
C3_Witness ==
    /\ builds["u1"] = 1
    /\ state["u1"] = NoState
    /\ Len(hist["u1"].docs) = 1
    /\ hist["u1"].jobs = 1

\* C4: every record handed to a renderer, and the record of every running
\* process_format, holds all nine fields of the steps and the two derived
\* fields.
C4_CompleteRecord ==
    \A s \in Sessions :
        /\ \A i \in 1..Len(hist[s].renders) :
              StepKeys \cup DerivedKeys \subseteq DOMAIN hist[s].renders[i]
        /\ pc[s] # "idle" =>
              StepKeys \cup DerivedKeys \subseteq DOMAIN frame[s].resume_data

\* a record was rendered in a pass that a /build restarted midway
C4_Witness ==
    /\ builds["u1"] = 2
    /\ hist["u1"].done = 0
    /\ Len(hist["u1"].renders) = 1
    /\ pc["u1"] = "send"

C7_FreshRecord ==
    [][\A s \in Sessions :
          builds'[s] # builds[s] =>
              (state'[s] = "name" /\ data'[s] = EmptyDict)]_vars

\* C8: the document delivered to a session is the one rendered from the
\* session's own record, and no session fails for a file another session
\* has removed.
C8_Isolation ==
    \A s \in Sessions :
        /\ \A i \in 1..Len(hist[s].docs) :
              hist[s].docs[i] = OwnDoc(hist[s].renders[i])
        /\ ~InList("FileNotFoundError", hist[s].raised)

\* C9: the pdf and the docx rendering of a record handed to a renderer have
\* the same lines of text, headings included, in the same order.
C9_SameText ==
    \A s \in Sessions :
        \A i \in 1..Len(hist[s].renders) :
            DocText(generate_pdf_resume(hist[s].renders[i]).doc)
                = DocText(generate_docx_resume(hist[s].renders[i]).doc)

\* position of x in common_skills
FallbackIndex(x) == CHOOSE j \in 1..Len(common_skills) : common_skills[j] = x

\* C10: when process_format derives the enhanced skills, the caller's list
\* is left as it was, and the enhanced list is that list followed by
\* entries of common_skills that are not in it, in common_skills order,
\* each once.
C10_EnhanceSkills ==
    [][(pc["u1"] = "idle" /\ pc'["u1"] # "idle") =>
          LET skills == data["u1"]["skills"]
              r == frame'["u1"].resume_data
              enhanced == r["enhanced_skills"]
              added == SubSeq(enhanced, Len(skills) + 1, Len(enhanced))
          IN  /\ r["skills"] = skills
              /\ data'["u1"]["skills"] = skills
              /\ Len(enhanced) >= Len(skills)
              /\ SubSeq(enhanced, 1, Len(skills)) = skills
              /\ \A i \in 1..Len(added) :
                    /\ InList(added[i], common_skills)
                    /\ ~InList(added[i], skills)
              /\ \A i, j \in 1..Len(added) :
                    i < j => FallbackIndex(added[i]) < FallbackIndex(added[j])]_vars

\* a list of seven skills holding a fallback entry twice was enhanced by
\* the first fallback entry alone
C10_Witness ==
    /\ pc["u1"] = "send"
    /\ Len(frame["u1"].resume_data["skills"]) = 7
    /\ frame["u1"].resume_data["skills"][1] = <<"Teamwork">>
    /\ frame["u1"].resume_data["skills"][2] = <<"Teamwork">>
    /\ frame["u1"].resume_data["enhanced_skills"]
          = frame["u1"].resume_data["skills"] \o << <<"Problem", " ", "Solving">> >>

\* the smaller of two numbers
Min(a, b) == IF a < b THEN a ELSE b

\* number of common_skills entries that are not in skills
Missing(skills) ==
    Cardinality({j \in 1..Len(common_skills) : ~InList(common_skills[j], skills)})

\* C11 as stated: whatever the length of the user's list, the enhanced list
\* of every rendered record has at most 8 entries, and has
\* min(8, user skills + fallback entries not in them) entries.
C11_AtMostEight ==
    \A s \in Sessions :
        \A i \in 1..Len(hist[s].renders) :
            LET r == hist[s].renders[i] IN
            /\ Len(r["enhanced_skills"]) <= MaxSkills
            /\ Len(r["enhanced_skills"])
                  = Min(MaxSkills, Len(r["skills"]) + Missing(r["skills"]))

\* C11 amended: for a user's list of at most 8 entries the enhanced list has
\* min(8, user skills + fallback entries not in them) entries, so at most
\* 8; a user's list of more than 8 entries is kept whole, so the enhanced
\* list has as many entries as the user's list.
C11_LengthRule ==
    \A s \in Sessions :
        \A i \in 1..Len(hist[s].renders) :
            LET r == hist[s].renders[i]
                n == Len(r["skills"])
            IN  Len(r["enhanced_skills"])
                    = IF n > MaxSkills THEN n
                      ELSE Min(MaxSkills, n + Missing(r["skills"]))

\* a list of nine skills was rendered with nine enhanced skills
C11_Witness ==
    /\ Len(hist["u1"].renders) = 1
    /\ Len(hist["u1"].renders[1]["skills"]) = 9
    /\ Len(hist["u1"].renders[1]["enhanced_skills"]) = 9

\* the segments of a list that are not empty
NonEmpty(segments) == SelectSeq(segments, LAMBDA seg : seg # <<>>)

\* C12: whenever the Skills step stores the skills, the stored sequence is,
\* for a text of the Skills step, the comma-separated segments of the text
\* in order, each trimmed, with the segments that are empty after trimming
\* left out.
C12_NoEmptySkill ==
    [][\A s \in Sessions :
        (state[s] = "skills" /\ state'[s] = "projects") =>
            \E text \in FullInputs.skills :
                data'[s]["skills"] = NonEmpty(StripAll(Split(text, ",", -1)))]_vars

\* the number of commas of a line
CommaCount(line) == Cardinality({i \in 1..Len(line) : line[i] = ","})

\* the place of the k-th comma of a line; 0 for k = 0, one past the end of
\* the line when it has fewer than k commas
CommaAt(line, k) ==
    IF k = 0 THEN 0
    ELSE IF CommaCount(line) < k THEN Len(line) + 1
    ELSE CHOOSE i \in 1..Len(line) :
             /\ line[i] = ","
             /\ Cardinality({j \in 1..i : line[j] = ","}) = k

\* the k-th comma-separated field of a line, trimmed ("" when there is none)
Field(line, k) == Strip(SubSeq(line, CommaAt(line, k - 1) + 1, CommaAt(line, k) - 1))

\* all the text after the k-th comma of a line, commas included, trimmed
Rest(line, k) == Strip(SubSeq(line, CommaAt(line, k) + 1, Len(line)))

\* the lines of text an input line is to give: none when it has fewer fields
\* than the minimum
ExpectedExperience(line) ==
    IF CommaCount(line) + 1 >= 3
    THEN << Field(line, 1) \o <<" - ">> \o Field(line, 2), Field(line, 3), Rest(line, 3) >>
    ELSE <<>>

ExpectedEducation(line) ==
    IF CommaCount(line) + 1 >= 2
    THEN << Field(line, 1), Field(line, 2) \o <<",", " ">> \o Field(line, 3) >>
    ELSE <<>>

ExpectedProject(line) == << Field(line, 1), Rest(line, 1) >>

\* the body lines of a document's text that follow the heading h, up to the
\* next heading; none when the heading is not there
SectionBody(lines, h) ==
    LET at == {i \in 1..Len(lines) : lines[i].kind = "heading" /\ lines[i].text \in h}
    IN  IF at = {} THEN <<>>
        ELSE LET i == CHOOSE x \in at : TRUE
                 later == {j \in (i + 1)..Len(lines) : lines[j].kind = "heading"}
                 end == IF later = {} THEN Len(lines) + 1
                        ELSE CHOOSE j \in later : \A k \in later : j <= k
             IN  [k \in 1..(end - i - 1) |-> lines[i + k].text]

\* the headings of the sections, as the pdf and the docx renderer print them
ExperienceHeadings == { <<"WORK EXPERIENCE">>, <<"Work Experience">> }
EducationHeadings == { <<"EDUCATION">>, <<"Education">> }
ProjectsHeadings == { <<"PROJECTS">>, <<"Projects">> }

\* both renderings of a record
BothDocs(r) == { generate_pdf_resume(r).doc, generate_docx_resume(r).doc }

\* the faults of the environment: writing, reading or removing the file,
\* sending to Telegram
Faults == {"OSError", "FileNotFoundError", "TelegramNetworkError"}

\* C13: in both renderings of every record handed to a renderer, the
\* entries of the education, experience and projects sections are those of
\* the input lines in input order, one entry for a line at most; a line
\* with fewer fields than the minimum (2 for education, 3 for experience, 1
\* for a project) gives no entry and raises nothing; the description of an
\* experience is all the text after the third comma and that of a project
\* all the text after the first, commas included.
C13_LineEntries ==
    \A s \in Sessions :
        /\ \A i \in 1..Len(hist[s].renders) :
              LET r == hist[s].renders[i] IN
              \A doc \in BothDocs(r) :
                  /\ SectionBody(DocText(doc), ExperienceHeadings)
                        = Flatten([k \in 1..Len(r["experience"]) |->
                                      ExpectedExperience(r["experience"][k])])
                  /\ SectionBody(DocText(doc), EducationHeadings)
                        = Flatten([k \in 1..Len(r["education"]) |->
                                      ExpectedEducation(r["education"][k])])
                  /\ SectionBody(DocText(doc), ProjectsHeadings)
                        = Flatten([k \in 1..Len(r["projects"]) |->
                                      ExpectedProject(r["projects"][k])])
        /\ \A i \in 1..Len(hist[s].raised) : hist[s].raised[i] \in Faults

\* a record was rendered and delivered whose experience lines are one with
\* two fields and then one whose description holds a comma
C13_Witness ==
    /\ Len(hist["u1"].docs) = 1
    /\ hist["u1"].renders[1]["experience"]
          = << <<"Dev", ",", " ", "Acme">>,
               <<"Dev", ",", " ", "Acme", ",", " ", "2020", ",", " ", "built", ",", " ", "ran">> >>
    /\ \A doc \in BothDocs(hist["u1"].renders[1]) :
          SectionBody(DocText(doc), ExperienceHeadings)
              = << <<"Dev", " - ", "Acme">>, <<"2020">>, <<"built", ",", " ", "ran">> >>

\* the texts of the Projects step that are the sentinel
SkipTexts == {text \in FullInputs.projects : Lower(text) = <<"skip">>}

\* the headings of a document
HeadingsOf(doc) ==
    {doc.items[i].text : i \in {j \in 1..Len(doc.items) : doc.items[j].kind = "heading"}}

\* C14: when the text at the Projects step is the sentinel "skip", the
\* projects stored are the empty sequence and the session goes on to the
\* Template step; and neither rendering of a record whose projects are
\* empty has a Projects heading or anything after its skills line.
C14_SkipProjects ==
    [][\A s \in Sessions :
        /\ \A text \in SkipTexts :
              process_projects(s, text) =>
                  /\ data'[s]["projects"] = <<>>
                  /\ state'[s] = "template"
        /\ \A i \in 1..Len(hist'[s].renders) :
              LET r == hist'[s].renders[i] IN
              r["projects"] = <<>> =>
                  \A doc \in BothDocs(r) :
                      /\ HeadingsOf(doc) \cap ProjectsHeadings = {}
                      /\ doc.items[Len(doc.items)]
                            = Body(Join(<<",", " ">>, r["enhanced_skills"]))]_vars

\* after "skip" at the Projects step the record was rendered with no
\* projects and its document was delivered
C14_Witness ==
    /\ Len(hist["u1"].docs) = 1
    /\ hist["u1"].renders[1]["projects"] = <<>>
    /\ HeadingsOf(hist["u1"].docs[1]) \cap ProjectsHeadings = {}

\* the keywords of skill_to_jobs that are a substring of some lower-cased
\* skill of the list
Matching(skills) ==
    {k \in 1..Len(skill_to_jobs) :
        \E i \in 1..Len(skills) : Contains(Lower(skills[i]), skill_to_jobs[k].key)}

DefaultTitles ==
    {"Project Manager", "Software Developer", "Business Analyst",
     "Data Specialist", "Marketing Coordinator"}

\* C15: every call of get_job_recommendations returns the union of the
\* titles of every keyword that is a substring of some lower-cased skill
\* when there is such a keyword, and the five default titles when there is
\* none, and only then; for the skills Python and SQL the titles returned
\* include "Python Developer" and "Database Administrator".
C15_JobUnion ==
    \A s \in Sessions :
        \A i \in 1..Len(hist[s].recs) :
            LET call == hist[s].recs[i] IN
            /\ Matching(call.skills) # {} =>
                  call.jobs = UNION {skill_to_jobs[k].jobs : k \in Matching(call.skills)}
            /\ Matching(call.skills) = {} <=> call.jobs = DefaultTitles
            /\ Cardinality(DefaultTitles) = 5
            /\ call.skills = << <<"Python">>, <<"SQL">> >> =>
                  {"Python Developer", "Database Administrator"} \subseteq call.jobs

\* get_job_recommendations was called with the skills Python and SQL, and
\* returned the titles of both keywords
C15_Witness ==
    /\ Len(hist["u1"].recs) = 1
    /\ hist["u1"].recs[1].skills = << <<"Python">>, <<"SQL">> >>
    /\ hist["u1"].recs[1].jobs
          = {"Python Developer", "Software Engineer", "Data Scientist",
             "Backend Developer", "Database Administrator", "Data Analyst",
             "SQL Developer"}

SummaryHeadings == { <<"PROFESSIONAL SUMMARY">>, <<"Professional Summary">> }
SkillsHeadings == { <<"SKILLS">>, <<"Skills">> }

\* C16: in both renderings of every record handed to a renderer, a section
\* has its heading only if its data is non-empty: the summary and the
\* skills when they are not empty, work experience, education and projects
\* when at least one of their lines gives an entry.
C16_NoEmptySection ==
    \A s \in Sessions :
        \A i \in 1..Len(hist[s].renders) :
            LET r == hist[s].renders[i] IN
            \A doc \in BothDocs(r) :
                /\ HeadingsOf(doc) \cap SummaryHeadings # {} => r["summary"] # <<>>
                /\ HeadingsOf(doc) \cap ExperienceHeadings # {} =>
                      \E k \in 1..Len(r["experience"]) :
                          ExpectedExperience(r["experience"][k]) # <<>>
                /\ HeadingsOf(doc) \cap EducationHeadings # {} =>
                      \E k \in 1..Len(r["education"]) :
                          ExpectedEducation(r["education"][k]) # <<>>
                /\ HeadingsOf(doc) \cap SkillsHeadings # {} => r["enhanced_skills"] # <<>>
                /\ HeadingsOf(doc) \cap ProjectsHeadings # {} => r["projects"] # <<>>

\* C17: once a run of the Format step has ended, the handler has sent the
\* document or an error message, one of the two and not both, for each of
\* its completions since the build trigger; also when something fails
\* after the document was delivered.
C17_OneCallback ==
    \A s \in Sessions :
        pc[s] = "idle" =>
            Len(hist[s].docs) + Len(hist[s].errors) = hist[s].done

\* C18: when a run of the Format step ends, on whichever path, the file it
\* wrote is no longer in the working directory.
C18_FileReleased ==
    [][\A s \in Sessions :
        (pc[s] # "idle" /\ pc'[s] = "idle") =>
            ~HasKey(files', frame[s].file_path)]_vars

\* the family of a font; the default document of python-docx sets the
\* fonts of its own styles, whatever the template
FontFamily(font) ==
    CASE font = "Helvetica" -> "sans-serif"
      [] font = "Times"     -> "serif"
      [] font = "Courier"   -> "monospace"
      [] OTHER              -> "document default"

\* the family the style preset of a template names
PresetFamily(template) ==
    CASE template = <<"professional">> -> "sans-serif"
      [] template = <<"creative">>     -> "sans-serif"
      [] template = <<"academic">>     -> "serif"
      [] template = <<"technical">>    -> "monospace"

\* C19: in both renderings of every record handed to a renderer whose
\* template is one of the four, the headings and the body text have the
\* font family of the template's preset, so that the renderings of the
\* record with the academic and with the technical template differ in font
\* family, in pdf and in docx.
C19_FontByTemplate ==
    \A s \in Sessions :
        \A i \in 1..Len(hist[s].renders) :
            LET r == hist[s].renders[i]
                academic == [r EXCEPT !["template"] = <<"academic">>]
                technical == [r EXCEPT !["template"] = <<"technical">>]
            IN  InList(r["template"], TEMPLATES) =>
                    /\ \A doc \in BothDocs(r) :
                          /\ FontFamily(doc.title_font) = PresetFamily(r["template"])
                          /\ FontFamily(doc.body_font) = PresetFamily(r["template"])
                    /\ FontFamily(generate_pdf_resume(academic).doc.body_font)
                          # FontFamily(generate_pdf_resume(technical).doc.body_font)
                    /\ FontFamily(generate_docx_resume(academic).doc.body_font)
                          # FontFamily(generate_docx_resume(technical).doc.body_font)

\* C20: whenever a record is handed to a renderer, each of its fields name,
\* email, phone, education, experience, skills, projects and template
\* holds the value the session entered for it after its most recent build
\* trigger, and its format is the one chosen by the callback that started
\* this run; no field holds a value left from before the trigger.
C20_EnteredSinceBuild ==
    [][\A s \in Sessions :
        Len(hist'[s].renders) > Len(hist[s].renders) =>
            LET r == hist'[s].renders[Len(hist'[s].renders)] IN
            /\ \A key \in StepKeys \ {"format"} :
                  /\ HasKey(hist[s].entered, key)
                  /\ r[key] = hist[s].entered[key]
            /\ \E cb \in FullInputs.callbacks, o \in RenderOutcomes :
                  /\ process_format(s, cb, o)
                  /\ r["format"] = CallbackId(cb)]_vars

\* after a second build trigger a record was rendered and delivered that
\* has the name entered after that trigger
C20_Witness ==
    /\ builds["u1"] = 2
    /\ Len(hist["u1"].docs) = 1
    /\ hist["u1"].renders[1]["name"] = <<"Cy">>
    /\ hist["u1"].entered["name"] = <<"Cy">>

====
